---------------------------- MODULE Spec2Model ----------------------------
(***************************************************************************)
(* A model of process_csv_files (main.py): a folder of CSV files is        *)
(* reconciled against a spreadsheet.  For every CSV file the dataset name  *)
(* is derived from the file name, the spreadsheet row with that name is    *)
(* looked up, the CSV is read, a fixed battery of metrics is computed and  *)
(* written into the row, and at the end a summary row is appended and the  *)
(* workbook is saved.                                                      *)
(*                                                                         *)
(* A Python str is a sequence of one-character strings, so that split,     *)
(* replace and endswith are computed character by character.  A cell or a  *)
(* CSV value is a record [k, s, n]: k is the kind ("none", "nan", "str",   *)
(* "num"), s the characters of a str, n the number of a num.               *)
(***************************************************************************)
EXTENDS Integers, Sequences, FiniteSets, TLC

(***************************************************************************)
(* Bounds of the model.                                                    *)
(***************************************************************************)
\* the most data rows of the spreadsheet
MaxRows == 2
\* the longest directory listing
MaxFiles == 2
\* the most data rows of a CSV file
MaxCsvRows == 2
\* the most chunks a dataset identifier is built from (name derivation)
MaxIdParts == 2

(***************************************************************************)
(* The string literals of main.py.                                         *)
(***************************************************************************)
s_Name_in_database == <<"N", "a", "m", "e", "_", "i", "n", "_", "d", "a", "t", "a", "b", "a", "s", "e">>
s_Accuracy == <<"A", "c", "c", "u", "r", "a", "c", "y">>
s_Num_Blocks == <<"N", "u", "m", "_", "B", "l", "o", "c", "k", "s">>
s_Num_Trails == <<"N", "u", "m", "_", "T", "r", "a", "i", "l", "s">>
s_RT_Confidence == <<"R", "T", "_", "C", "o", "n", "f", "i", "d", "e", "n", "c", "e">>
s_Max_Trial_in_block == <<"M", "a", "x", "_", "T", "r", "i", "a", "l", "_", "i", "n", "_", "b", "l", "o", "c", "k">>
s_Min_Trial_in_block == <<"M", "i", "n", "_", "T", "r", "i", "a", "l", "_", "i", "n", "_", "b", "l", "o", "c", "k">>
s_Blank_Value == <<"B", "l", "a", "n", "k", "_", "V", "a", "l", "u", "e">>
s_Max_Num_Blocks == <<"M", "a", "x", "_", "N", "u", "m", "_", "B", "l", "o", "c", "k", "s">>
s_Min_Num_Blocks == <<"M", "i", "n", "_", "N", "u", "m", "_", "B", "l", "o", "c", "k", "s">>
s_Subj_idx == <<"S", "u", "b", "j", "_", "i", "d", "x">>
s_data_ == <<"d", "a", "t", "a", "_">>
s_dot_csv == <<".", "c", "s", "v">>
s_yes == <<"y", "e", "s">>
s_no == <<"n", "o">>
s_Accuracy_col == <<"A", "c", "c", "u", "r", "a", "c", "y", "_", "c", "o", "l">>
s_Accuracy_let == <<"A", "c", "c", "u", "r", "a", "c", "y", "_", "l", "e", "t">>
s_ErrorDirection == <<"E", "r", "r", "o", "r", "D", "i", "r", "e", "c", "t", "i", "o", "n">>
s_ErrorDirectionJudgment == <<"E", "r", "r", "o", "r", "D", "i", "r", "e", "c", "t", "i", "o", "n", "J", "u", "d", "g", "m", "e", "n", "t">>
s_Accuracy_Motion == <<"A", "c", "c", "u", "r", "a", "c", "y", "_", "M", "o", "t", "i", "o", "n">>
s_Accuracy_Color == <<"A", "c", "c", "u", "r", "a", "c", "y", "_", "C", "o", "l", "o", "r">>
s_block == <<"b", "l", "o", "c", "k">>
s_blocks == <<"b", "l", "o", "c", "k", "s">>
s_Block == <<"B", "l", "o", "c", "k">>
s_Blocks == <<"B", "l", "o", "c", "k", "s">>
s_BlockNumber == <<"B", "l", "o", "c", "k", "N", "u", "m", "b", "e", "r">>
s_Block_count == <<"B", "l", "o", "c", "k", "_", "c", "o", "u", "n", "t">>
s_Int_dot_Block == <<"I", "n", "t", ".", "B", "l", "o", "c", "k">>
s_block_type == <<"b", "l", "o", "c", "k", "_", "t", "y", "p", "e">>
s_BlockID == <<"B", "l", "o", "c", "k", "I", "D">>
s_Block_Type == <<"B", "l", "o", "c", "k", "_", "T", "y", "p", "e">>
s_NumBlock == <<"N", "u", "m", "B", "l", "o", "c", "k">>
s_blocki == <<"b", "l", "o", "c", "k", "i">>
s_trials == <<"t", "r", "i", "a", "l", "s">>
s_trial == <<"t", "r", "i", "a", "l">>
s_Trial == <<"T", "r", "i", "a", "l">>
s_NTrialInCond == <<"N", "T", "r", "i", "a", "l", "I", "n", "C", "o", "n", "d">>
s_triali == <<"t", "r", "i", "a", "l", "i">>
s_RT_confidence == <<"R", "T", "_", "c", "o", "n", "f", "i", "d", "e", "n", "c", "e">>
s_RT_conf == <<"R", "T", "_", "c", "o", "n", "f">>
s_RT_decConf == <<"R", "T", "_", "d", "e", "c", "C", "o", "n", "f">>
s_RT_decConf_1 == <<"R", "T", "_", "d", "e", "c", "C", "o", "n", "f", "_", "1">>
s_RT_decConf_2 == <<"R", "T", "_", "d", "e", "c", "C", "o", "n", "f", "_", "2">>
s_Trial_in_block == <<"T", "r", "i", "a", "l", "_", "i", "n", "_", "b", "l", "o", "c", "k">>
s_trials_per_block == <<"t", "r", "i", "a", "l", "s", "_", "p", "e", "r", "_", "b", "l", "o", "c", "k">>
s_NumTrialinBlock == <<"N", "u", "m", "T", "r", "i", "a", "l", "i", "n", "B", "l", "o", "c", "k">>
s_Trial_count == <<"T", "r", "i", "a", "l", "_", "c", "o", "u", "n", "t">>
s_Trial_in_Block_spaced == <<"T", "r", "i", "a", "l", " ", "i", "n", " ", "B", "l", "o", "c", "k">>
s_Trial_number == <<"T", "r", "i", "a", "l", "_", "n", "u", "m", "b", "e", "r">>
s_trial_count == <<"t", "r", "i", "a", "l", "_", "c", "o", "u", "n", "t">>
s_Trial_Number == <<"T", "r", "i", "a", "l", "_", "N", "u", "m", "b", "e", "r">>

accuracy_columns ==
    << s_Accuracy, s_Accuracy_col, s_Accuracy_let, s_ErrorDirection,
    s_ErrorDirectionJudgment, s_Accuracy_Motion, s_Accuracy_Color >>
block_columns ==
    << s_block, s_blocks, s_Block, s_Blocks,
    s_BlockNumber, s_Block_count, s_Int_dot_Block, s_block_type,
    s_BlockID, s_Block_Type, s_NumBlock, s_blocki >>
trial_columns ==
    << s_trials, s_trial, s_Trial, s_NTrialInCond,
    s_triali >>
confidence_columns ==
    << s_RT_confidence, s_RT_conf, s_RT_decConf, s_RT_decConf_1,
    s_RT_decConf_2 >>
trial_in_block_columns ==
    << s_Trial_in_block, s_trials_per_block, s_NumTrialinBlock, s_Trial_count,
    s_Trial_in_Block_spaced, s_Trial_number, s_trial_count, s_Trial_Number,
    s_Trial >>

new_row ==
    << <<"u6c47", "u603b", "u4fe1", "u606f">>,
       <<"u8fd9", "u91cc", "u53ef", "u4ee5", "u6dfb", "u52a0", "u5177", "u4f53", "u6c47", "u603b", "u6570", "u636e">> >>

(***************************************************************************)
(* Python values.                                                          *)
(***************************************************************************)
None == [k |-> "none", s |-> <<>>, n |-> 0]
NaN == [k |-> "nan", s |-> <<>>, n |-> 0]
Str(chars) == [k |-> "str", s |-> chars, n |-> 0]
Num(i) == [k |-> "num", s |-> <<>>, n |-> i]

Range(f) == {f[i] : i \in DOMAIN f}

(***************************************************************************)
(* str.endswith, str.split and str.replace, scanning left to right for     *)
(* non-overlapping occurrences as CPython does.                            *)
(***************************************************************************)
occurs_at(s, i, sub) ==
    /\ i + Len(sub) - 1 <= Len(s)
    /\ SubSeq(s, i, i + Len(sub) - 1) = sub

endswith(s, suffix) ==
    /\ Len(suffix) <= Len(s)
    /\ SubSeq(s, Len(s) - Len(suffix) + 1, Len(s)) = suffix

RECURSIVE split_from(_, _, _, _)
split_from(s, sep, i, piece) ==
    IF i > Len(s) THEN << piece >>
    ELSE IF occurs_at(s, i, sep)
         THEN << piece >> \o split_from(s, sep, i + Len(sep), << >>)
         ELSE split_from(s, sep, i + 1, Append(piece, s[i]))

split(s, sep) == split_from(s, sep, 1, << >>)

RECURSIVE replace_from(_, _, _, _)
replace_from(s, old, new, i) ==
    IF i > Len(s) THEN << >>
    ELSE IF occurs_at(s, i, old)
         THEN new \o replace_from(s, old, new, i + Len(old))
         ELSE << s[i] >> \o replace_from(s, old, new, i + 1)

replace(s, old, new) == replace_from(s, old, new, 1)

\* a variant that takes the piece after the first 'data_', not the last
derive_second_piece(file) ==
    LET pieces == split(file, s_data_)
    IN  replace(pieces[IF Len(pieces) >= 2 THEN 2 ELSE 1], s_dot_csv, << >>)

\* line 34: data_name = file.split('data_')[-1].replace('.csv', '')
derive_data_name(file) ==
    LET pieces == split(file, s_data_)
    IN  replace(pieces[Len(pieces)], s_dot_csv, << >>)

(***************************************************************************)
(* pandas: a DataFrame read from a CSV file is [columns, nrows, data],     *)
(* data[c] the values of column c, one per row.                            *)
(***************************************************************************)
no_frame == [columns |-> {}, nrows |-> 0, data |-> << >>]

\* next((col for col in alt_columns if col in csv_df.columns), None)
RECURSIVE next_col_from(_, _, _)
next_col_from(alt_columns, columns, i) ==
    IF i > Len(alt_columns) THEN None
    ELSE IF alt_columns[i] \in columns THEN Str(alt_columns[i])
         ELSE next_col_from(alt_columns, columns, i + 1)

\* a variant that takes the last synonym present, not the first
RECURSIVE last_col_from(_, _, _)
last_col_from(alt_columns, columns, i) ==
    IF i < 1 THEN None
    ELSE IF alt_columns[i] \in columns THEN Str(alt_columns[i])
         ELSE last_col_from(alt_columns, columns, i - 1)

next_col_last(df, alt_columns) ==
    last_col_from(alt_columns, df.columns, Len(alt_columns))

next_col(df, alt_columns) == next_col_from(alt_columns, df.columns, 1)

set_max(S) == CHOOSE m \in S : \A x \in S : x <= m
set_min(S) == CHOOSE m \in S : \A x \in S : m <= x

\* the values of a Series that are not NaN (pandas skips NaN by default)
notna(series) == Range(series) \ {NaN}

\* Series.nunique()
nunique(series) == Cardinality(notna(series))

\* Series.max()
series_max(series) ==
    IF notna(series) = {} THEN NaN
    ELSE Num(set_max({v.n : v \in notna(series)}))

\* csv_df.groupby(col).size(): the number of rows of every group
group_sizes(df, col) ==
    {Cardinality({i \in 1..df.nrows : df.data[col][i] = key}) :
        key \in notna(df.data[col])}

\* csv_df.groupby('Subj_idx')[col].nunique(): per subject, the distinct values
group_nunique(df, by, col) ==
    {Cardinality({df.data[col][i] :
                    i \in {j \in 1..df.nrows : df.data[by][j] = key}} \ {NaN}) :
        key \in notna(df.data[by])}

\* lines 69-75: alt_columns is not used
check_accuracy(df, alt_columns) ==
    IF s_Accuracy \in df.columns THEN Str(s_yes) ELSE Str(s_no)

\* a variant whose result for a missing column is the count 0
check_num_blocks_zero(df, alt_columns) ==
    LET block_col == next_col(df, alt_columns)
    IN  IF block_col = None THEN Num(0) ELSE Num(nunique(df.data[block_col.s]))

check_num_blocks(df, alt_columns) ==
    LET block_col == next_col(df, alt_columns)
    IN  IF block_col = None THEN Str(s_no) ELSE Num(nunique(df.data[block_col.s]))

check_num_trails(df, alt_columns) ==
    LET trial_col == next_col(df, alt_columns)
    IN  IF trial_col = None THEN Str(s_no) ELSE series_max(df.data[trial_col.s])

check_rt_confidence(df, alt_columns) ==
    LET confidence_col == next_col(df, alt_columns)
    IN  IF confidence_col # None THEN Str(s_yes) ELSE Str(s_no)

\* returns the pair << max_count, min_count >>
check_trial_in_block(df, alt_columns) ==
    LET block_col == next_col(df, alt_columns)
    IN  IF block_col = None THEN << Str(s_no), Str(s_no) >>
        ELSE LET block_counts == group_sizes(df, block_col.s)
             IN  IF block_counts = {} THEN << NaN, NaN >>
                 ELSE << Num(set_max(block_counts)), Num(set_min(block_counts)) >>

check_blank_values(df, alt_columns) ==
    IF \E c \in df.columns : NaN \in Range(df.data[c])
    THEN Str(s_yes) ELSE Str(s_no)

\* returns the pair << max_count, min_count >>
check_block_min_max(df, alt_columns) ==
    LET block_col == next_col(df, alt_columns)
    IN  IF block_col = None THEN << Str(s_no), Str(s_no) >>
        ELSE IF s_Subj_idx \notin df.columns THEN << Str(s_no), Str(s_no) >>
        ELSE LET unique_counts == group_nunique(df, s_Subj_idx, block_col.s)
             IN  IF unique_counts = {} THEN << Str(s_no), Str(s_no) >>
                 ELSE << Num(set_max(unique_counts)), Num(set_min(unique_counts)) >>

(***************************************************************************)
(* The spreadsheet.  xlsx_df is DataFrame(ws.values): a sequence of rows,  *)
(* each a sequence of values, row 1 the header.  Rows and columns are      *)
(* counted from 1, as openpyxl counts them: the DataFrame's 0-based index  *)
(* i is row i + 1 and its column label j is column j + 1 (lines 41, 59).   *)
(* A worksheet cell is [value, style]; style "sample" is the font and      *)
(* alignment copied from the cell in row 2, column 1.                      *)
(***************************************************************************)
plain_cell(v) == [value |-> v, style |-> "own"]
styled_cell(v) == [value |-> v, style |-> "sample"]

values_of(sheet) == [r \in DOMAIN sheet |-> [c \in DOMAIN sheet[r] |-> sheet[r][c].value]]

\* xlsx_df.columns[xlsx_df.iloc[0] == column_name]
column_indices(df, column_name) ==
    {c \in DOMAIN df[1] : df[1][c] = Str(column_name)}

\* a variant that matches without regard to the case of "A"
fold_case(chars) == [i \in DOMAIN chars |-> IF chars[i] = "A" THEN "a" ELSE chars[i]]

match_index_nocase(df, col, name) ==
    {r \in DOMAIN df : df[r][col].k = "str" /\ fold_case(df[r][col].s) = fold_case(name)}

\* xlsx_df[xlsx_df.iloc[:, col] == data_name].index
match_index(df, col, name) ==
    {r \in DOMAIN df : df[r][col] = Str(name)}

\* ws.cell(row=2, column=1): openpyxl creates the cell, and with it the row,
\* when the worksheet does not have it yet
sample_cell(sheet) ==
    IF Len(sheet) >= 2 THEN sheet
    ELSE Append(sheet, [c \in DOMAIN sheet[1] |-> plain_cell(None)])

\* cell = ws.cell(row, column); cell.value = value; cell.font = ...; cell.alignment = ...
set_cell(sheet, row, col, v) ==
    [sheet EXCEPT ![row][col] = styled_cell(v)]

\* the writing half of check_and_update and of the four inlined copies of it
write_metric(sheet, df, row, column_name, v) ==
    IF column_indices(df, column_name) = {} THEN sheet
    ELSE set_cell(sheet, row, set_min(column_indices(df, column_name)), v)

\* a variant that writes the summary over the last row
append_over_last_row(sheet, row_values) ==
    [sheet EXCEPT ![Len(sheet)] =
        [c \in DOMAIN sheet[1] |->
            styled_cell(IF c <= Len(row_values) THEN Str(row_values[c]) ELSE None)]]

\* ws.append(new_row), then the sampled style on every cell of the new row
append_row(sheet, row_values) ==
    Append(sheet,
        [c \in DOMAIN sheet[1] |->
            styled_cell(IF c <= Len(row_values) THEN Str(row_values[c]) ELSE None)])

(***************************************************************************)
(* The inputs: spreadsheets, directory listings, CSV files.                *)
(***************************************************************************)
n_A1 == << "A", "1" >>
n_a1 == << "a", "1" >>
n_A1_space == << "A", "1", " " >>

\* header rows: the complete one, one with the name column second, a duplicated
\* target column and most target columns absent, and one with no name column
Headers ==
    { << s_Name_in_database, s_Accuracy, s_Num_Blocks, s_Num_Trails, s_RT_Confidence,
         s_Max_Trial_in_block, s_Min_Trial_in_block, s_Blank_Value,
         s_Max_Num_Blocks, s_Min_Num_Blocks >>,
      << s_Accuracy, s_Name_in_database, s_Min_Num_Blocks, s_Accuracy >>,
      << s_Accuracy, s_Num_Blocks >> }

\* the dataset names of the data rows, top to bottom: differing in case, in a
\* trailing blank, or not at all
Names == { n_A1, n_a1, n_A1_space }

RowNames == UNION { [1..n -> Names] : n \in 0..MaxRows }

name_column(header) ==
    IF \E c \in DOMAIN header : header[c] = s_Name_in_database
    THEN set_min({c \in DOMAIN header : header[c] = s_Name_in_database})
    ELSE 1

sheet_of(header, names) ==
    << [c \in DOMAIN header |-> Str(header[c])] >> \o
    [r \in DOMAIN names |->
        [c \in DOMAIN header |-> IF c = name_column(header) THEN Str(names[r]) ELSE None]]

Sheets == {sheet_of(h, names) : h \in Headers, names \in RowNames}

f_sub_data_A1_csv == << "s", "u", "b", "_" >> \o s_data_ \o n_A1 \o s_dot_csv
f_data_a1_csv == s_data_ \o n_a1 \o s_dot_csv
f_data_Name_in_database_csv == s_data_ \o s_Name_in_database \o s_dot_csv
f_data_C3_csv == s_data_ \o << "C", "3" >> \o s_dot_csv
f_data_A1_txt == s_data_ \o n_A1 \o << ".", "t", "x", "t" >>

FileNames ==
    { f_sub_data_A1_csv, f_data_a1_csv, f_data_Name_in_database_csv,
      f_data_C3_csv, f_data_A1_txt }

\* os.listdir: the names of a folder in any order, no name twice
Listings ==
    UNION { {l \in [1..n -> FileNames] : \A i, j \in 1..n : i # j => l[i] # l[j]} :
            n \in 0..MaxFiles }

CsvValues == {Num(1), Num(2), NaN}

\* the column layouts of the CSV files
c_RT == << "R", "T" >>

ColumnSets ==
    { {c_RT}, {s_Subj_idx}, {s_Accuracy}, {s_Accuracy_col}, {s_Accuracy_col, s_Accuracy},
      {s_block, s_Block}, {s_Block, s_Subj_idx}, {s_trial, s_Trial},
      {s_RT_conf}, {s_RT_decConf_2, s_RT_confidence} }

FramesOn(cs, n) ==
    { [columns |-> cs, nrows |-> n, data |-> d] : d \in [cs -> [1..n -> CsvValues]] }

Frames == UNION { FramesOn(cs, n) : cs \in ColumnSets, n \in 0..MaxCsvRows }

\* the CSV files the folder's files may hold when the driver reads them
DriverFrames ==
    { [columns |-> {c_RT}, nrows |-> 2,
       data |-> (c_RT :> << Num(1), Num(2) >>)],
      [columns |-> {s_Accuracy, s_Block, s_Subj_idx}, nrows |-> 2,
       data |-> (s_Accuracy :> << Num(1), Num(1) >>) @@ (s_Block :> << Num(1), Num(2) >>)
                @@ (s_Subj_idx :> << Num(1), Num(1) >>)],
      [columns |-> {s_trial, s_RT_conf}, nrows |-> 2,
       data |-> (s_trial :> << Num(2), NaN >>) @@ (s_RT_conf :> << NaN, NaN >>)] }

(***************************************************************************)
(* The state.                                                              *)
(***************************************************************************)
VARIABLES
    disk,        \* the spreadsheet file: [exists, rows], rows the saved cells
    folder,      \* the CSV folder: [exists, listing]
    pc,          \* the statement process_csv_files is at
    xlsx_df,     \* DataFrame(ws.values), taken once after the load
    ws,          \* the worksheet in memory
    csv_files,   \* the listing filtered on '.csv'
    fi,          \* the position of the for loop in csv_files
    file,        \* the loop variable
    data_name,   \* the dataset name derived from file
    index,       \* the matched row
    csv_df,      \* the CSV file read
    max_trial, min_trial, max_block, min_block,
    pbar,        \* the progress bar's count
    out,         \* what was printed
    exc,         \* the exception that left process_csv_files, or "none"
    loads,       \* calls of load_workbook that returned
    saves,       \* calls of wb.save
    appends,     \* calls of ws.append
    reads,       \* calls of pd.read_csv
    listed,      \* whether os.listdir was called
    log,         \* the steps taken for the current file
    outcome,     \* how each file of csv_files taken so far ended
    alt_columns, \* the synonym list a metric function was applied to
    value        \* what it returned

env == << disk, folder >>
wbook == << xlsx_df, ws >>
loop == << csv_files, fi, file, data_name, index, csv_df >>
pairs == << max_trial, min_trial, max_block, min_block >>
console == << pbar, out, exc >>
counts == << loads, saves, appends, reads, listed >>
history == << log, outcome >>
applied == << alt_columns, value >>
vars == << env, pc, wbook, loop, pairs, console, counts, history, applied >>

\* before the first statement: nothing loaded, nothing printed
InitProgram ==
    /\ xlsx_df = << >>
    /\ ws = << >>
    /\ csv_files = << >>
    /\ fi = 1
    /\ data_name = << >>
    /\ index = 0
    /\ max_trial = None /\ min_trial = None /\ max_block = None /\ min_block = None
    /\ pbar = 0
    /\ out = << >>
    /\ exc = "none"
    /\ loads = 0 /\ saves = 0 /\ appends = 0 /\ reads = 0
    /\ listed = FALSE
    /\ log = << >>
    /\ outcome = << >>
    /\ alt_columns = << >>
    /\ value = << >>

Init ==
    /\ disk \in {[exists |-> FALSE, rows |-> << >>]}
                \cup {[exists |-> TRUE, rows |-> s] : s \in Sheets}
    /\ folder \in {[exists |-> FALSE, listing |-> << >>]}
                  \cup {[exists |-> TRUE, listing |-> l] : l \in Listings}
    /\ pc = "load_workbook"
    /\ file = << >>
    /\ csv_df = no_frame
    /\ InitProgram

\* an entry of log: the step taken, and the function run, the value written or
\* how the load ended
step(name, what) == [step |-> name, of |-> what]

(***************************************************************************)
(* process_csv_files, statement by statement.                              *)
(***************************************************************************)
\* lines 15-18: the workbook loads
LoadWorkbook ==
    /\ pc = "load_workbook"
    /\ disk.exists
    /\ ws' = [r \in DOMAIN disk.rows |->
                [c \in DOMAIN disk.rows[r] |-> plain_cell(disk.rows[r][c])]]
    /\ xlsx_df' = disk.rows
    /\ loads' = loads + 1
    /\ pc' = "sample_cell"
    /\ UNCHANGED << env, loop, pairs, console, saves, appends, reads, listed,
                    history, applied >>

\* a variant that returns without a message
LoadWorkbookMissingSilent ==
    /\ pc = "load_workbook"
    /\ ~disk.exists
    /\ pc' = "returned"
    /\ UNCHANGED << env, wbook, loop, pairs, console, counts, history, applied >>

\* lines 19-21: FileNotFoundError is caught, reported, and the function returns
LoadWorkbookMissing ==
    /\ pc = "load_workbook"
    /\ ~disk.exists
    /\ out' = Append(out, "xlsx_not_found")
    /\ pc' = "returned"
    /\ UNCHANGED << env, wbook, loop, pairs, pbar, exc, counts, history, applied >>

\* lines 24-26
SampleCell ==
    /\ pc = "sample_cell"
    /\ ws' = sample_cell(ws)
    /\ pc' = "listdir"
    /\ UNCHANGED << env, xlsx_df, loop, pairs, console, counts, history, applied >>

\* lines 28-29
ListDir ==
    /\ pc = "listdir"
    /\ folder.exists
    /\ listed' = TRUE
    /\ csv_files' = SelectSeq(folder.listing, LAMBDA f : endswith(f, s_dot_csv))
    /\ pc' = "for_file"
    /\ UNCHANGED << env, wbook, fi, file, data_name, index, csv_df, pairs, console,
                    loads, saves, appends, reads, history, applied >>

\* line 28: os.listdir raises FileNotFoundError, which nothing catches
ListDirMissing ==
    /\ pc = "listdir"
    /\ ~folder.exists
    /\ listed' = TRUE
    /\ exc' = "FileNotFoundError"
    /\ pc' = "raised"
    /\ UNCHANGED << env, wbook, loop, pairs, pbar, out,
                    loads, saves, appends, reads, history, applied >>

\* lines 32-34: the next file, and its dataset name
ForFile ==
    /\ pc = "for_file"
    /\ fi <= Len(csv_files)
    /\ file' = csv_files[fi]
    /\ data_name' = derive_data_name(csv_files[fi])
    /\ log' = << >>
    /\ pc' = "match_row"
    /\ UNCHANGED << env, wbook, csv_files, fi, index, csv_df, pairs, console, counts,
                    outcome, applied >>

\* line 32: the loop is over
ForDone ==
    /\ pc = "for_file"
    /\ fi > Len(csv_files)
    /\ pc' = "append"
    /\ UNCHANGED << env, wbook, loop, pairs, console, counts, history, applied >>

\* line 36: no header cell is 'Name_in_database': [0] raises IndexError
MatchRowNoNameColumn ==
    /\ pc = "match_row"
    /\ column_indices(xlsx_df, s_Name_in_database) = {}
    /\ exc' = "IndexError"
    /\ outcome' = Append(outcome, "no_name_column")
    /\ pc' = "raised"
    /\ UNCHANGED << env, wbook, loop, pairs, pbar, out, counts, log, applied >>

\* lines 36-41: a row matches
MatchRow ==
    /\ pc = "match_row"
    /\ column_indices(xlsx_df, s_Name_in_database) # {}
    /\ LET name_in_database_col_index == set_min(column_indices(xlsx_df, s_Name_in_database))
           rows == match_index(xlsx_df, name_in_database_col_index, data_name)
       IN  /\ rows # {}
           /\ index' = set_min(rows)
    /\ log' = Append(log, step("MATCH_ROW", ""))
    /\ pc' = "read_csv"
    /\ UNCHANGED << env, wbook, csv_files, fi, file, data_name, csv_df, pairs, console,
                    counts, outcome, applied >>

\* lines 36-39 and 204: no row matches, the file is passed over
MatchRowNone ==
    /\ pc = "match_row"
    /\ column_indices(xlsx_df, s_Name_in_database) # {}
    /\ LET name_in_database_col_index == set_min(column_indices(xlsx_df, s_Name_in_database))
       IN  match_index(xlsx_df, name_in_database_col_index, data_name) = {}
    /\ log' = Append(log, step("MATCH_ROW", ""))
    /\ outcome' = Append(outcome, "no_match")
    /\ pc' = "pbar_update"
    /\ UNCHANGED << env, wbook, loop, pairs, console, counts, applied >>

\* line 43: the CSV file is read
ReadCsv ==
    /\ pc = "read_csv"
    /\ \E df \in DriverFrames : csv_df' = df
    /\ reads' = reads + 1
    /\ log' = Append(log, step("LOAD_CSV", "ok"))
    /\ pc' = "accuracy"
    /\ UNCHANGED << env, wbook, csv_files, fi, file, data_name, index, pairs, console,
                    loads, saves, appends, listed, outcome, applied >>

\* a variant in which the caught FileNotFoundError does not `continue`
ReadCsvMissingFallsThrough ==
    /\ pc = "read_csv"
    /\ reads' = reads + 1
    /\ log' = Append(log, step("LOAD_CSV", "FileNotFoundError"))
    /\ outcome' = Append(outcome, "missing")
    /\ pc' = "accuracy"
    /\ UNCHANGED << env, wbook, loop, pairs, console,
                    loads, saves, appends, listed, applied >>

\* lines 43-45: the file is gone since the listing; FileNotFoundError is caught
\* and `continue` takes the next file, passing over pbar.update
ReadCsvMissing ==
    /\ pc = "read_csv"
    /\ reads' = reads + 1
    /\ log' = log \o << step("LOAD_CSV", "FileNotFoundError"), step("NEXT_FILE", "") >>
    /\ outcome' = Append(outcome, "missing")
    /\ fi' = fi + 1
    /\ pc' = "for_file"
    /\ UNCHANGED << env, wbook, csv_files, file, data_name, index, csv_df, pairs, console,
                    loads, saves, appends, listed, applied >>

\* line 43: pd.read_csv raises anything else (EmptyDataError for an empty file,
\* ParserError, UnicodeDecodeError, PermissionError, IsADirectoryError): only
\* FileNotFoundError is caught, so it leaves process_csv_files
ReadCsvError ==
    /\ pc = "read_csv"
    /\ reads' = reads + 1
    /\ log' = Append(log, step("LOAD_CSV", "error"))
    /\ outcome' = Append(outcome, "load_error")
    /\ exc' = "read_csv error"
    /\ pc' = "raised"
    /\ UNCHANGED << env, wbook, loop, pairs, pbar, out,
                    loads, saves, appends, listed, applied >>

\* lines 47-67, check_and_update(column_name, alt_columns, func): when the header
\* has the column, func is called and then its value written into the matched row
CheckAndUpdate(at, column_name, func, v, then) ==
    /\ pc = at
    /\ ws' = write_metric(ws, xlsx_df, index, column_name, v)
    /\ log' = IF column_indices(xlsx_df, column_name) = {} THEN log
              ELSE log \o << step("RUN", func), step("WRITE", func) >>
    /\ pc' = then
    /\ UNCHANGED << env, xlsx_df, loop, pairs, console, counts, outcome, applied >>

\* lines 159-168 and the three copies: the header is searched and one value of
\* a pair computed before is written
WritePairValue(at, column_name, tag, v, then) ==
    /\ pc = at
    /\ ws' = write_metric(ws, xlsx_df, index, column_name, v)
    /\ log' = IF column_indices(xlsx_df, column_name) = {} THEN log
              ELSE Append(log, step("WRITE", tag))
    /\ pc' = then
    /\ UNCHANGED << env, xlsx_df, loop, pairs, console, counts, applied >>

\* line 153
UpdateAccuracy ==
    CheckAndUpdate("accuracy", s_Accuracy, "check_accuracy",
                   check_accuracy(csv_df, accuracy_columns), "num_blocks")

\* line 154
UpdateNumBlocks ==
    CheckAndUpdate("num_blocks", s_Num_Blocks, "check_num_blocks",
                   check_num_blocks(csv_df, block_columns), "num_trails")

\* line 155
UpdateNumTrails ==
    CheckAndUpdate("num_trails", s_Num_Trails, "check_num_trails",
                   check_num_trails(csv_df, trial_columns), "rt_confidence")

\* line 156
UpdateRtConfidence ==
    CheckAndUpdate("rt_confidence", s_RT_Confidence, "check_rt_confidence",
                   check_rt_confidence(csv_df, confidence_columns), "trial_in_block")

\* line 158: called with block_columns
TrialInBlock ==
    /\ pc = "trial_in_block"
    /\ max_trial' = check_trial_in_block(csv_df, block_columns)[1]
    /\ min_trial' = check_trial_in_block(csv_df, block_columns)[2]
    /\ log' = Append(log, step("RUN", "check_trial_in_block"))
    /\ pc' = "max_trial"
    /\ UNCHANGED << env, wbook, loop, max_block, min_block, console, counts,
                    outcome, applied >>

\* lines 159-168
WriteMaxTrial ==
    /\ WritePairValue("max_trial", s_Max_Trial_in_block, "max_trial", max_trial, "min_trial")
    /\ UNCHANGED outcome

\* lines 169-178
WriteMinTrial ==
    /\ WritePairValue("min_trial", s_Min_Trial_in_block, "min_trial", min_trial, "blank_value")
    /\ UNCHANGED outcome

\* line 180
UpdateBlankValue ==
    CheckAndUpdate("blank_value", s_Blank_Value, "check_blank_values",
                   check_blank_values(csv_df, << >>), "block_min_max")

\* line 182
BlockMinMax ==
    /\ pc = "block_min_max"
    /\ max_block' = check_block_min_max(csv_df, block_columns)[1]
    /\ min_block' = check_block_min_max(csv_df, block_columns)[2]
    /\ log' = Append(log, step("RUN", "check_block_min_max"))
    /\ pc' = "max_block"
    /\ UNCHANGED << env, wbook, loop, max_trial, min_trial, console, counts,
                    outcome, applied >>

\* lines 183-192
WriteMaxBlock ==
    /\ WritePairValue("max_block", s_Max_Num_Blocks, "max_block", max_block, "min_block")
    /\ UNCHANGED outcome

\* lines 193-202: the last statement of the loop body for a matched file
WriteMinBlock ==
    /\ WritePairValue("min_block", s_Min_Num_Blocks, "min_block", min_block, "pbar_update")
    /\ outcome' = Append(outcome, "updated")

\* line 204
PbarUpdate ==
    /\ pc = "pbar_update"
    /\ pbar' = pbar + 1
    /\ fi' = fi + 1
    /\ log' = Append(log, step("NEXT_FILE", ""))
    /\ pc' = "for_file"
    /\ UNCHANGED << env, wbook, csv_files, file, data_name, index, csv_df, pairs,
                    out, exc, counts, outcome, applied >>

\* lines 206-214
AppendSummary ==
    /\ pc = "append"
    /\ ws' = append_row(ws, new_row)
    /\ appends' = appends + 1
    /\ pc' = "save"
    /\ UNCHANGED << env, xlsx_df, loop, pairs, console, loads, saves, reads, listed,
                    history, applied >>

\* lines 216-218
Save ==
    /\ pc = "save"
    /\ disk' = [exists |-> TRUE, rows |-> values_of(ws)]
    /\ saves' = saves + 1
    /\ out' = Append(out, "update_ok")
    /\ pc' = "done"
    /\ UNCHANGED << folder, wbook, loop, pairs, pbar, exc, loads, appends, reads, listed,
                    history, applied >>

\* lines 216-220: wb.save raises; every Exception is caught and reported
SaveFails ==
    /\ pc = "save"
    /\ saves' = saves + 1
    /\ out' = Append(out, "save_error")
    /\ pc' = "done"
    /\ UNCHANGED << env, wbook, loop, pairs, pbar, exc, loads, appends, reads, listed,
                    history, applied >>

Next ==
    \/ LoadWorkbook \/ LoadWorkbookMissing \/ SampleCell \/ ListDir \/ ListDirMissing
    \/ ForFile \/ ForDone \/ MatchRowNoNameColumn \/ MatchRow \/ MatchRowNone
    \/ ReadCsv \/ ReadCsvMissing \/ ReadCsvError
    \/ UpdateAccuracy \/ UpdateNumBlocks \/ UpdateNumTrails \/ UpdateRtConfidence
    \/ TrialInBlock \/ WriteMaxTrial \/ WriteMinTrial \/ UpdateBlankValue
    \/ BlockMinMax \/ WriteMaxBlock \/ WriteMinBlock \/ PbarUpdate
    \/ AppendSummary \/ Save \/ SaveFails

Spec == Init /\ [][Next]_vars

(***************************************************************************)
(* The name derivation on its own: line 34 applied to file names of the    *)
(* form <anything>data_<id>.csv.                                           *)
(***************************************************************************)
RECURSIVE concat(_)
concat(chunks) ==
    IF chunks = << >> THEN << >> ELSE Head(chunks) \o concat(Tail(chunks))

\* what a dataset identifier is built from: plain text, the prefix token, the
\* extension, and pieces of both
IdChunks ==
    { n_A1, s_data_, s_dot_csv, << "_" >>, << "." >>, << "c", "s", "v" >>,
      << "d", "a", "t", "a" >> }

Ids == UNION { {concat(l) : l \in [1..n -> IdChunks]} : n \in 0..MaxIdParts }

\* what stands before the prefix token
Anythings == { << >>, << "s", "u", "b", "_" >>, s_data_ \o << "x", "_" >>, s_dot_csv }

NameFiles == { a \o s_data_ \o id \o s_dot_csv : a \in Anythings, id \in Ids }

InitName ==
    /\ disk = [exists |-> FALSE, rows |-> << >>]
    /\ folder = [exists |-> FALSE, listing |-> << >>]
    /\ pc = "derive"
    /\ file \in NameFiles
    /\ csv_df = no_frame
    /\ InitProgram

\* line 34
DeriveName ==
    /\ pc = "derive"
    /\ data_name' = derive_data_name(file)
    /\ pc' = "derived"
    /\ UNCHANGED << env, wbook, csv_files, fi, file, index, csv_df, pairs, console,
                    counts, history, applied >>

NextName == DeriveName

SpecName == InitName /\ [][NextName]_vars

(***************************************************************************)
(* The metric functions on their own: each applied to a CSV file and to    *)
(* an ordering of its synonym list.                                        *)
(***************************************************************************)
rotate(list, k) ==
    [i \in DOMAIN list |-> list[((i - 1 + k) % Len(list)) + 1]]

reverse(list) == [i \in DOMAIN list |-> list[Len(list) + 1 - i]]

\* the rotations of a list and of its reverse
Orders(list) ==
    {rotate(list, k) : k \in 0..(Len(list) - 1)}
    \cup {rotate(reverse(list), k) : k \in 0..(Len(list) - 1)}

InitMetrics ==
    /\ disk = [exists |-> FALSE, rows |-> << >>]
    /\ folder = [exists |-> FALSE, listing |-> << >>]
    /\ pc = "apply"
    /\ file = << >>
    /\ csv_df \in Frames
    /\ InitProgram

Apply(func, alt, v) ==
    /\ pc = "apply"
    /\ alt_columns' = alt
    /\ value' = v
    /\ pc' = func
    /\ UNCHANGED << env, wbook, loop, pairs, console, counts, history >>

ApplyCheckAccuracy ==
    \E alt \in Orders(accuracy_columns) :
        Apply("check_accuracy", alt, << check_accuracy(csv_df, alt) >>)

ApplyCheckNumBlocks ==
    \E alt \in Orders(block_columns) :
        Apply("check_num_blocks", alt, << check_num_blocks(csv_df, alt) >>)

ApplyCheckNumTrails ==
    \E alt \in Orders(trial_columns) :
        Apply("check_num_trails", alt, << check_num_trails(csv_df, alt) >>)

ApplyCheckRtConfidence ==
    \E alt \in Orders(confidence_columns) :
        Apply("check_rt_confidence", alt, << check_rt_confidence(csv_df, alt) >>)

ApplyCheckTrialInBlock ==
    \E alt \in Orders(block_columns) :
        Apply("check_trial_in_block", alt, check_trial_in_block(csv_df, alt))

ApplyCheckBlankValues ==
    Apply("check_blank_values", << >>, << check_blank_values(csv_df, << >>) >>)

ApplyCheckBlockMinMax ==
    \E alt \in Orders(block_columns) :
        Apply("check_block_min_max", alt, check_block_min_max(csv_df, alt))

NextMetrics ==
    \/ ApplyCheckAccuracy \/ ApplyCheckNumBlocks \/ ApplyCheckNumTrails
    \/ ApplyCheckRtConfidence \/ ApplyCheckTrialInBlock \/ ApplyCheckBlankValues
    \/ ApplyCheckBlockMinMax

SpecMetrics == InitMetrics /\ [][NextMetrics]_vars
(***************************************************************************)
(* The properties checked.                                                 *)
(***************************************************************************)
NameColumns == column_indices(xlsx_df, s_Name_in_database)

LastOutcome == IF outcome = << >> THEN "none" ELSE outcome[Len(outcome)]

\* the row as it was loaded
Untouched(r) == ws[r] = [c \in DOMAIN xlsx_df[r] |-> plain_cell(xlsx_df[r][c])]

(* C1: a step changes a cell of an existing worksheet row only if that row's
   'Name_in_database' value is, character for character, the dataset name
   derived from the CSV file being processed, a '.csv' file of the folder;
   so a file whose derived name equals no row's name changes no cell. *)
C1_OnlyMatchingRowTouched ==
    [][\A r \in DOMAIN ws :
          (r \in DOMAIN ws' /\ ws'[r] # ws[r]) =>
              /\ r \in DOMAIN xlsx_df
              /\ NameColumns # {}
              /\ xlsx_df[r][set_min(NameColumns)] = Str(data_name)
              /\ \E i \in DOMAIN folder.listing :
                    /\ endswith(folder.listing[i], s_dot_csv)
                    /\ file = folder.listing[i]
                    /\ xlsx_df[r][set_min(NameColumns)]
                          = Str(derive_data_name(folder.listing[i]))]_vars

\* sub_data_A1.csv was processed: the row named A1 is written, a row named a1
\* and a row named 'A1 ' (trailing blank) of the same sheet are as loaded
C1_Witness ==
    /\ pc = "pbar_update"
    /\ LastOutcome = "updated"
    /\ data_name = n_A1
    /\ ~Untouched(index)
    /\ \E r \in DOMAIN xlsx_df :
          /\ xlsx_df[r][set_min(NameColumns)] \in {Str(n_a1), Str(n_A1_space)}
          /\ r < index
          /\ Untouched(r)

(* C2: a per-file failure (the CSV cannot be loaded, or no row matches) only
   skips that file: no exception leaves process_csv_files, and a run that
   ends has taken every file of the listing and has saved. *)
C2_PerFileFailureOnlySkips ==
    (\E i \in DOMAIN outcome : outcome[i] \in {"no_match", "missing", "load_error"}) =>
        /\ exc = "none"
        /\ pc # "raised"
        /\ pc = "done" => (Len(outcome) = Len(csv_files) /\ saves = 1)

(* C3: when the spreadsheet file is missing the run reports it and returns:
   nothing is listed or read, no row is appended, nothing is saved, and no
   exception leaves the function. *)
C3_MissingSpreadsheetAbortsCleanly ==
    /\ ~disk.exists =>
          /\ pc \in {"load_workbook", "returned"}
          /\ exc = "none"
          /\ ~listed /\ reads = 0 /\ appends = 0 /\ saves = 0 /\ loads = 0
          /\ ws = << >> /\ csv_files = << >>
          /\ pc = "returned" => out = << "xlsx_not_found" >>
    /\ pc = "returned" => ~disk.exists

C3_Witness ==
    /\ pc = "returned"
    /\ folder.exists
    /\ folder.listing # << >>

(* C4: in every run in which the workbook loaded, it is loaded once and saved
   once, after the last file and after the summary row, and a failing save
   does not raise.  Stated here for the runs whose CSV folder exists and whose
   header has the 'Name_in_database' column; the claim covers the others too. *)
C4_LoadedOnceSavedOnce ==
    (loads >= 1 /\ folder.exists /\ NameColumns # {} /\ pc \in {"done", "raised"}) =>
        /\ loads = 1
        /\ saves = 1
        /\ appends = 1
        /\ fi > Len(csv_files)
        /\ exc = "none"

(* C10: the header row (row 1) is never modified by processing a CSV file,
   whatever dataset name is derived from its file name. *)
C10_HeaderRowNeverModified ==
    pc \notin {"load_workbook", "returned"} =>
        \A c \in DOMAIN xlsx_df[1] : ws[1][c] = plain_cell(xlsx_df[1][c])

(* C5: appending the summary row adds one row below every existing row, holding
   the two fixed strings, and leaves every cell of every existing row as it
   was, the cells written earlier in the run included; the worksheet is not
   changed afterwards; the row is appended at most once, and once in every run
   that reaches the save, whether or not a CSV file matched. *)
C5_SummaryRowAppended ==
    /\ [][appends' # appends =>
            /\ appends' = appends + 1
            /\ Len(ws') = Len(ws) + 1
            /\ \A r \in DOMAIN ws : ws'[r] = ws[r]
            /\ \A c \in DOMAIN ws'[Len(ws')] :
                  ws'[Len(ws')][c].value =
                      IF c = 1 THEN Str(new_row[1])
                      ELSE IF c = 2 THEN Str(new_row[2]) ELSE None]_vars
    /\ [][appends = 1 => ws' = ws]_vars
    /\ [](appends <= 1)
    /\ [](pc \in {"save", "done"} => appends = 1)

\* the summary row is in place below a row written earlier in the run
C5_Witness ==
    /\ pc = "save"
    /\ "updated" \in Range(outcome)
    /\ index > 1
    /\ ~Untouched(index)
    /\ Len(ws) = Len(xlsx_df) + 1
    /\ ws[Len(ws)][1].value = Str(new_row[1])

\* the target columns, the tag of the write in log, and the synonym list the
\* metric function is called with
Targets ==
    { [column |-> s_Accuracy, tag |-> "check_accuracy", synonyms |-> accuracy_columns],
      [column |-> s_Num_Blocks, tag |-> "check_num_blocks", synonyms |-> block_columns],
      [column |-> s_Num_Trails, tag |-> "check_num_trails", synonyms |-> trial_columns],
      [column |-> s_RT_Confidence, tag |-> "check_rt_confidence",
       synonyms |-> confidence_columns],
      [column |-> s_Max_Trial_in_block, tag |-> "max_trial", synonyms |-> block_columns],
      [column |-> s_Min_Trial_in_block, tag |-> "min_trial", synonyms |-> block_columns],
      [column |-> s_Blank_Value, tag |-> "check_blank_values", synonyms |-> << >>],
      [column |-> s_Max_Num_Blocks, tag |-> "max_block", synonyms |-> block_columns],
      [column |-> s_Min_Num_Blocks, tag |-> "min_block", synonyms |-> block_columns] }

(* C7: when a CSV file has been processed, no exception was raised, every
   target column of the header has its cell of the matched row written, and
   the cell of a metric none of whose synonym columns is in the CSV holds the
   sentinel 'no', whatever columns the other metrics found or missed. *)
C7_SentinelPerMetric ==
    (pc = "pbar_update" /\ LastOutcome = "updated") =>
        /\ exc = "none"
        /\ \A t \in Targets :
              column_indices(xlsx_df, t.column) # {} =>
                  LET cell == ws[index][set_min(column_indices(xlsx_df, t.column))]
                  IN  /\ cell.style = "sample"
                      /\ cell.value # None
                      /\ step("WRITE", t.tag) \in Range(log)
                      /\ (/\ t.synonyms # << >>
                          /\ \A i \in DOMAIN t.synonyms : t.synonyms[i] \notin csv_df.columns)
                            => cell.value = Str(s_no)

\* a CSV file with a trial column and no block column: Num_Blocks and the four
\* block pairs hold 'no', Num_Trails holds the maximum
C7_Witness ==
    /\ pc = "pbar_update"
    /\ LastOutcome = "updated"
    /\ index > 1
    /\ csv_df.columns = {s_trial, s_RT_conf}
    /\ Len(xlsx_df[1]) = 10
    /\ ws[index][3].value = Str(s_no)
    /\ ws[index][4].value = Num(2)
    /\ ws[index][9].value = Str(s_no)

HasColumn(column_name) == column_indices(xlsx_df, column_name) # {}

RunAndWrite(column_name, func) ==
    IF HasColumn(column_name) THEN << step("RUN", func), step("WRITE", func) >> ELSE << >>

WriteOnly(column_name, tag) ==
    IF HasColumn(column_name) THEN << step("WRITE", tag) >> ELSE << >>

\* the steps of a file that is matched and read
FullLog ==
    << step("MATCH_ROW", ""), step("LOAD_CSV", "ok") >>
    \o RunAndWrite(s_Accuracy, "check_accuracy")
    \o RunAndWrite(s_Num_Blocks, "check_num_blocks")
    \o RunAndWrite(s_Num_Trails, "check_num_trails")
    \o RunAndWrite(s_RT_Confidence, "check_rt_confidence")
    \o << step("RUN", "check_trial_in_block") >>
    \o WriteOnly(s_Max_Trial_in_block, "max_trial")
    \o WriteOnly(s_Min_Trial_in_block, "min_trial")
    \o RunAndWrite(s_Blank_Value, "check_blank_values")
    \o << step("RUN", "check_block_min_max") >>
    \o WriteOnly(s_Max_Num_Blocks, "max_block")
    \o WriteOnly(s_Min_Num_Blocks, "min_block")
    \o << step("NEXT_FILE", "") >>

IsPrefix(a, b) == Len(a) <= Len(b) /\ SubSeq(b, 1, Len(a)) = a

(* C8, as amended: for each CSV file the steps are MATCH_ROW, LOAD_CSV, then
   metric by metric the run of the function followed at once by the write of
   its value (the pair metrics: one run, then the two writes), then NEXT_FILE.
   The row is matched before the CSV is read, and a file with no matching row
   is not read at all; a match failure and a FileNotFoundError of the read go
   straight to the next file; any other error of the read ends the run. *)
C8_StepsInCodeOrder ==
    IF pc \in {"load_workbook", "returned", "sample_cell", "listdir"}
    THEN log = << >>
    ELSE /\ \/ IsPrefix(log, FullLog)
            \/ IsPrefix(log, << step("MATCH_ROW", ""), step("NEXT_FILE", "") >>)
            \/ IsPrefix(log, << step("MATCH_ROW", ""), step("LOAD_CSV", "FileNotFoundError"),
                               step("NEXT_FILE", "") >>)
            \/ /\ log = << step("MATCH_ROW", ""), step("LOAD_CSV", "error") >>
               /\ pc = "raised"
         /\ (pc = "pbar_update" /\ LastOutcome = "no_match")
               => log = << step("MATCH_ROW", "") >>
         /\ (pc = "pbar_update" /\ LastOutcome = "updated")
               => log = SubSeq(FullLog, 1, Len(FullLog) - 1)

\* a file was matched, read, and its first metric written before the second
\* metric was run
C8_Witness ==
    /\ pc = "num_trails"
    /\ index > 1
    /\ log = << step("MATCH_ROW", ""), step("LOAD_CSV", "ok"),
                step("RUN", "check_accuracy"), step("WRITE", "check_accuracy"),
                step("RUN", "check_num_blocks"), step("WRITE", "check_num_blocks") >>

(* C8 as claimed: the CSV is loaded before the row is matched, every metric is
   computed before any cell is written, and a load or match failure goes
   straight to the next file. *)
C8_LoadBeforeMatch ==
    /\ \A i \in DOMAIN log :
          log[i].step = "MATCH_ROW" => \E j \in 1..(i - 1) : log[j].step = "LOAD_CSV"
    /\ \A i, j \in DOMAIN log :
          (log[i].step = "WRITE" /\ log[j].step = "RUN") => j < i
    /\ (\E i \in DOMAIN log : log[i].step = "LOAD_CSV" /\ log[i].of # "ok")
          => pc = "for_file"

contains(s, sub) == \E i \in 1..Len(s) : occurs_at(s, i, sub)

\* the <id> of a reading of file as <anything>data_<id>.csv, the token at i
IdAt(i) == SubSeq(file, i + Len(s_data_), Len(file) - Len(s_dot_csv))

IsReading(i) ==
    /\ occurs_at(file, i, s_data_)
    /\ endswith(file, s_dot_csv)
    /\ i + Len(s_data_) <= Len(file) - Len(s_dot_csv) + 1

(* C6, as amended: for every file name <anything>data_<id>.csv whose <id>
   contains neither 'data_' nor '.csv', the derived dataset name is <id>,
   whatever <anything> is. *)
C6_NameOfPlainId ==
    pc = "derived" =>
        \A i \in 1..Len(file) :
            (IsReading(i) /\ ~contains(IdAt(i), s_data_) /\ ~contains(IdAt(i), s_dot_csv))
                => data_name = IdAt(i)

\* data_x_data_A1data.csv: <anything> holds the token, <id> is A1data
C6_Witness ==
    /\ pc = "derived"
    /\ file = s_data_ \o << "x", "_" >> \o s_data_ \o n_A1 \o << "d", "a", "t", "a" >>
              \o s_dot_csv
    /\ data_name = n_A1 \o << "d", "a", "t", "a" >>

(* C6 as claimed: for every file name <anything>data_<id>.csv the derived
   dataset name is <id>, also when <id> contains 'data_' or '.csv'. *)
C6_NameIsId ==
    pc = "derived" =>
        \A i \in 1..Len(file) : IsReading(i) => data_name = IdAt(i)

SomeSynonym == \E i \in DOMAIN alt_columns : alt_columns[i] \in csv_df.columns

\* c is the first name of alt_columns that is a column of the CSV
FirstSynonym(c) ==
    \E i \in DOMAIN alt_columns :
        /\ alt_columns[i] = c
        /\ c \in csv_df.columns
        /\ \A j \in 1..(i - 1) : alt_columns[j] \notin csv_df.columns

Numbers(c) == {csv_df.data[c][r].n : r \in {q \in 1..csv_df.nrows : csv_df.data[c][q].k = "num"}}

YesNo(b) == IF b THEN Str(s_yes) ELSE Str(s_no)

(* C9, as amended: the presence flags give the same result for every ordering
   of their synonym list; RT_Confidence is 'yes' exactly when some synonym of
   the list is a CSV column, Accuracy is 'yes' exactly when the CSV has the
   column 'Accuracy' itself (its synonym list is not consulted); Num_Blocks is
   the number of distinct values and Num_Trails the maximum (NaN cells left
   out) of the first synonym in list order that is a CSV column, also when
   several synonyms are columns, and 'no' when none is. *)
C9_FlagsAndFirstSynonym ==
    /\ pc = "check_accuracy" =>
          /\ value = << YesNo(s_Accuracy \in csv_df.columns) >>
          /\ \A o \in Orders(alt_columns) : check_accuracy(csv_df, o) = value[1]
    /\ pc = "check_rt_confidence" =>
          /\ value = << YesNo(SomeSynonym) >>
          /\ \A o \in Orders(alt_columns) : check_rt_confidence(csv_df, o) = value[1]
    /\ pc = "check_num_blocks" =>
          IF ~SomeSynonym THEN value = << Str(s_no) >>
          ELSE \E c \in csv_df.columns :
                  /\ FirstSynonym(c)
                  /\ value = << Num(Cardinality(Numbers(c))) >>
    /\ pc = "check_num_trails" =>
          IF ~SomeSynonym THEN value = << Str(s_no) >>
          ELSE \E c \in csv_df.columns :
                  /\ FirstSynonym(c)
                  /\ IF Numbers(c) = {} THEN value = << NaN >>
                     ELSE /\ value[1].k = "num"
                          /\ value[1].n \in Numbers(c)
                          /\ \A x \in Numbers(c) : x <= value[1].n

\* 'block' and 'Block' are both columns, 'Block' comes first in the list, and
\* the count is that of 'Block'
C9_Witness ==
    /\ pc = "check_num_blocks"
    /\ csv_df.columns = {s_block, s_Block}
    /\ FirstSynonym(s_Block)
    /\ Cardinality(Numbers(s_Block)) = 2
    /\ Cardinality(Numbers(s_block)) = 1
    /\ value = << Num(2) >>

(* C9 as claimed: each presence flag, Accuracy included, is 'yes' exactly when
   some synonym of its list is a CSV column. *)
C9_FlagsFollowSynonyms ==
    pc \in {"check_accuracy", "check_rt_confidence"} => value = << YesNo(SomeSynonym) >>

=============================================================================
